---- MODULE Spec2Model ----
(***************************************************************************)
(* Model of excel_to_pdf.py: the Excel-to-PDF batch converter.             *)
(*                                                                         *)
(* Python values are records [t, v]: t is the Python type, v the text of   *)
(* the value as a sequence of characters (each character one token).       *)
(* A DataFrame is [columns, index, rows]: the column labels, the row       *)
(* labels (row identity) and one sequence of cells per row.                *)
(***************************************************************************)
EXTENDS Integers, Sequences, FiniteSets, TLC

VARIABLES
    \* ---- process-wide state (module level of excel_to_pdf.py)
    BIDI_SUPPORT,       \* line 24/27: resolved once at import
    reshaperFault,      \* environment: which reshaper configurations raise
    \* ---- ExcelToPDFConverter (the Tk main thread's object)
    file_path,          \* self.file_path
    output_dir,         \* self.output_dir
    convert_btn,        \* state of self.convert_btn: "disabled" | "normal"
    threads,            \* the threading.Thread objects started by convert()
    after_queue,        \* the callbacks posted with root.after(0, ...) and not yet run
    dialogs,            \* the message boxes shown so far
    documents,          \* the PDF paths present on disk
    \* ---- fix_persian_text called on its own
    shText, shRun,
    \* ---- the filename sanitization called on its own
    sName, sOut,
    \* ---- create_pdf_for_person called on its own
    rData, rName, rColumns, rOut,
    \* ---- the grouping of process_conversion run on its own
    gdf, gcol, gnames, ggroups, gpc

envVars    == <<BIDI_SUPPORT, reshaperFault>>
guiVars    == <<file_path, output_dir, convert_btn,
                threads, after_queue, dialogs, documents>>
shapeVars  == <<shText, shRun>>
sanVars    == <<sName, sOut>>
renderVars == <<rData, rName, rColumns, rOut>>
groupVars  == <<gdf, gcol, gnames, ggroups, gpc>>
vars       == <<envVars, guiVars, shapeVars, sanVars, renderVars, groupVars>>

-----------------------------------------------------------------------------
(* Bounds of the model *)

MaxNameLen == 3       \* longest entity name given to the sanitization
MaxTextLen == 2       \* longest text given to fix_persian_text
MaxCols == 11         \* widest table given to create_pdf_for_person
MaxGroupRows == 2     \* most rows of one group given to create_pdf_for_person
MaxRows == 4          \* most rows of a table given to the grouping
MaxConverts == 2      \* most times convert() starts a thread in one run

-----------------------------------------------------------------------------
(* Python values *)

None == [t |-> "none", v |-> <<>>]
NaN == [t |-> "nan", v |-> <<>>]
Str(s) == [t |-> "str", v |-> s]
Num(s) == [t |-> "int", v |-> s]

\* str(value)
PyStr(value) ==
    CASE value.t = "nan" -> <<"n", "a", "n">>
      [] value.t = "none" -> <<"N", "o", "n", "e">>
      [] OTHER -> value.v

\* pd.isna(value)
IsNa(value) == value.t \in {"nan", "none"}

\* a == b on cells: a missing value equals nothing, itself included
PyEq(a, b) == ~IsNa(a) /\ ~IsNa(b) /\ a = b

Reverse(s) == [k \in 1..Len(s) |-> s[Len(s) + 1 - k]]

-----------------------------------------------------------------------------
(* Characters.  "beh" is a right-to-left letter, "fatha" a combining       *)
(* diacritic (haraka), "BEH" the presentation form of "beh", "TAB" and     *)
(* "NL" whitespace other than the space.                                   *)

AlnumChars == {"a", "A", "B", "x", "y", "7", "beh", "BEH"}
SpaceChars == {" ", "TAB", "NL"}
RtlChars == {"beh", "BEH", "fatha"}

\* c.isalnum()
IsAlnum(c) == c \in AlnumChars

\* c.isspace()
IsSpace(c) == c \in SpaceChars

\* line 122: the generator expression, c.isalnum() or c in (' ', '-', '_')
KeepChar(c) == IsAlnum(c) \/ c \in {" ", "-", "_"}

\* "".join(c for c in person_name if ...)
RECURSIVE FilterChars(_)
FilterChars(s) ==
    IF s = <<>> THEN <<>>
    ELSE IF KeepChar(Head(s)) THEN <<Head(s)>> \o FilterChars(Tail(s))
    ELSE FilterChars(Tail(s))

\* str.rstrip(): drop the trailing whitespace
RECURSIVE RStrip(_)
RStrip(s) ==
    IF s = <<>> THEN <<>>
    ELSE IF IsSpace(s[Len(s)]) THEN RStrip(SubSeq(s, 1, Len(s) - 1))
    ELSE s

\* faulty variant of SafeFilename: the filter without the rstrip
SafeFilenameNoStrip(person_name) == FilterChars(person_name)

\* line 122: safe_filename
SafeFilename(person_name) == RStrip(FilterChars(person_name))

-----------------------------------------------------------------------------
(* fix_persian_text, lines 70-101 *)

\* arabic_reshaper: letters become presentation forms; the full configuration
\* (delete_harakat False) keeps the diacritics, the default one deletes them
RECURSIVE Reshape(_, _)
Reshape(config, s) ==
    IF s = <<>> THEN <<>>
    ELSE LET c == Head(s)
             rest == Reshape(config, Tail(s))
         IN  IF c = "beh" THEN <<"BEH">> \o rest
             ELSE IF c = "fatha" /\ config = "default" THEN rest
             ELSE <<c>> \o rest

\* bidi.algorithm.get_display: logical order to visual order
GetDisplay(s) == IF \E k \in 1..Len(s) : s[k] \in RtlChars THEN Reverse(s) ELSE s

\* faulty variant of FixPersianTextRun: the failed fallback is not caught
FixPersianTextRunNoCatch(text, bidi, fault) ==
    IF text = None THEN [result |-> <<>>, attempts |-> <<>>, raised |-> FALSE]
    ELSE LET s == PyStr(text) IN
         IF ~bidi THEN [result |-> s, attempts |-> <<>>, raised |-> FALSE]
         ELSE IF fault = "none"
              THEN [result |-> GetDisplay(Reshape("full", s)),
                    attempts |-> <<"full">>, raised |-> FALSE]
         ELSE IF fault = "full"
              THEN [result |-> GetDisplay(Reshape("default", s)),
                    attempts |-> <<"full", "default">>, raised |-> FALSE]
         ELSE [result |-> <<>>, attempts |-> <<"full", "default">>, raised |-> TRUE]

\* One call of fix_persian_text: what it returns, the reshaper configurations
\* it tried in order, and whether an exception left the function.
\* fault: "none" (nothing raises), "full" (the full configuration raises),
\* "both" (the default configuration raises too).
FixPersianTextRun(text, bidi, fault) ==
    IF text = None THEN [result |-> <<>>, attempts |-> <<>>, raised |-> FALSE]
    ELSE LET s == PyStr(text) IN
         IF ~bidi THEN [result |-> s, attempts |-> <<>>, raised |-> FALSE]
         ELSE IF fault = "none"
              THEN [result |-> GetDisplay(Reshape("full", s)),
                    attempts |-> <<"full">>, raised |-> FALSE]
         ELSE IF fault = "full"
              THEN [result |-> GetDisplay(Reshape("default", s)),
                    attempts |-> <<"full", "default">>, raised |-> FALSE]
         ELSE [result |-> s, attempts |-> <<"full", "default">>, raised |-> FALSE]

\* fix_persian_text(text) in the current process
fix_persian_text(text) == FixPersianTextRun(text, BIDI_SUPPORT, reshaperFault).result

-----------------------------------------------------------------------------
(* DataFrames *)

\* the position of column label col in df (labels of a frame are distinct)
ColIndex(df, col) == CHOOSE k \in 1..Len(df.columns) : df.columns[k] = col

\* df[col]: the cells of one column, in row order
Column(df, col) == [r \in 1..Len(df.rows) |-> df.rows[r][ColIndex(df, col)]]

\* col in df.columns
HasColumn(df, col) == \E k \in 1..Len(df.columns) : df.columns[k] = col

\* Series.dropna()
RECURSIVE DropNa(_)
DropNa(s) ==
    IF s = <<>> THEN <<>>
    ELSE IF IsNa(Head(s)) THEN DropNa(Tail(s))
    ELSE <<Head(s)>> \o DropNa(Tail(s))

\* Series.unique(): the distinct values in order of first appearance
RECURSIVE Unique(_)
Unique(s) ==
    IF s = <<>> THEN <<>>
    ELSE LET init == Unique(SubSeq(s, 1, Len(s) - 1))
             last == s[Len(s)]
         IN  IF \E k \in 1..Len(init) : init[k] = last THEN init
             ELSE Append(init, last)

\* faulty variant of UniqueNames: unique() without dropna()
UniqueNamesKeepNa(df, name_column) == Unique(Column(df, name_column))

\* faulty variant of UniqueNames: the distinct values in order of last appearance
UniqueNamesLastSeen(df, name_column) ==
    Reverse(Unique(Reverse(DropNa(Column(df, name_column)))))

\* line 421: df[name_column].dropna().unique()
UniqueNames(df, name_column) == Unique(DropNa(Column(df, name_column)))

\* the rows of df at the positions where keep holds, with their labels
RECURSIVE SelectRows(_, _, _)
SelectRows(df, keep, r) ==
    IF r > Len(df.rows) THEN [columns |-> df.columns, index |-> <<>>, rows |-> <<>>]
    ELSE LET rest == SelectRows(df, keep, r + 1) IN
         IF keep[r]
         THEN [rest EXCEPT !.index = <<df.index[r]>> \o @, !.rows = <<df.rows[r]>> \o @]
         ELSE rest

\* line 434: df[df[name_column] == name]
PersonData(df, name_column, name) ==
    SelectRows(df, [r \in 1..Len(df.rows) |-> PyEq(Column(df, name_column)[r], name)], 1)

-----------------------------------------------------------------------------
(* create_pdf_for_person, lines 118-243 *)

LayoutThreshold == 10

\* the fixed title label of line 161, a right-to-left word
ReportLabel == Str(<<"beh", "fatha">>)

\* faulty variant of FieldValue: the last row of the group instead of the first
FieldValueLastRow(person_data, col) ==
    LET series == Column(person_data, col)
        value == IF series # <<>> THEN series[Len(series)] ELSE Str(<<>>)
    IN  IF IsNa(value) THEN Str(<<"-">>) ELSE value

\* lines 183-185 and 202-204: the value shown for one column
FieldValue(person_data, col) ==
    LET series == Column(person_data, col)
        value == IF series # <<>> THEN series[1] ELSE Str(<<>>)
    IN  IF IsNa(value) THEN Str(<<"-">>) ELSE value

\* line 189 / 205: fix_persian_text(str(value))
ValueFixed(person_data, col) == fix_persian_text(Str(PyStr(FieldValue(person_data, col))))

\* faulty variant of UseVertical: the threshold off by one
UseVerticalOffByOne(columns) == Len(columns) >= LayoutThreshold

\* line 180: len(columns) > 10
UseVertical(columns) == Len(columns) > LayoutThreshold

\* lines 182-191: one [value, column name] row per column
VerticalData(person_data, columns) ==
    [k \in 1..Len(columns) |->
        <<ValueFixed(person_data, columns[k]), fix_persian_text(columns[k])>>]

\* lines 194-211: a header row and a value row, both reversed
HorizontalData(person_data, columns) ==
    LET headers == [k \in 1..Len(columns) |-> fix_persian_text(columns[k])]
        values == [k \in 1..Len(columns) |-> ValueFixed(person_data, columns[k])]
    IN  <<Reverse(headers), Reverse(values)>>

NoPath == [dir |-> "", file |-> <<>>]

\* One call of create_pdf_for_person.  buildRaises: doc.build raises (line 241).
\* raised: an exception left the function; pdf_filename: the file written.
create_pdf_for_person(person_data, person_name, dir, columns, buildRaises) ==
    IF person_name.t # "str"
    THEN \* line 122: iterating a value that is no string raises TypeError
         [raised |-> TRUE, pdf_filename |-> NoPath, title |-> <<>>, table_data |-> <<>>]
    ELSE LET safe_filename == SafeFilename(person_name.v)
             pdf_filename == [dir |-> dir, file |-> safe_filename \o <<".pdf">>]
             title_text == fix_persian_text(ReportLabel) \o <<":", " ">>
                           \o fix_persian_text(person_name)
             table_data == IF UseVertical(columns)
                           THEN VerticalData(person_data, columns)
                           ELSE HorizontalData(person_data, columns)
         IN  [raised |-> buildRaises,
              pdf_filename |-> IF buildRaises THEN NoPath ELSE pdf_filename,
              title |-> title_text, table_data |-> table_data]

-----------------------------------------------------------------------------
(* Values the unused parts of the state keep in each specification *)

NoFile == "None"
DefaultDir == "output_pdfs"
NotCalled == [called |-> FALSE]
EmptyFrame == [columns |-> <<>>, index |-> <<>>, rows |-> <<>>]

EnvFixed == BIDI_SUPPORT = TRUE /\ reshaperFault = "none"
EnvAny == BIDI_SUPPORT \in BOOLEAN /\ reshaperFault \in {"none", "full", "both"}
ShapeIdle == shText = None /\ shRun = NotCalled
SanIdle == sName = <<>> /\ sOut = NotCalled
RenderIdle == rData = EmptyFrame /\ rName = None /\ rColumns = <<>> /\ rOut = NotCalled
GroupIdle == gdf = EmptyFrame /\ gcol = None /\ gnames = <<>> /\ ggroups = <<>>
             /\ gpc = "idle"

\* ExcelToPDFConverter.__init__, lines 247-257, and setup_ui (convert_btn is
\* created disabled, line 323)
GuiInit ==
    /\ file_path = NoFile
    /\ output_dir = DefaultDir
    /\ convert_btn = "disabled"
    /\ threads = <<>>
    /\ after_queue = <<>>
    /\ dialogs = {}
    /\ documents = {}

\* all sequences over chars of length at most n
SeqsUpTo(chars, n) == UNION {[1..k -> chars] : k \in 0..n}

-----------------------------------------------------------------------------
(* The filename sanitization on every short entity name *)

SanChars == {"a", "7", "beh", " ", "-", "_", "/", "TAB"}

SanInit ==
    /\ sName \in SeqsUpTo(SanChars, MaxNameLen)
    /\ sOut = NotCalled
    /\ EnvFixed /\ GuiInit /\ ShapeIdle /\ RenderIdle /\ GroupIdle

Sanitize_Call ==
    /\ ~sOut.called
    /\ sOut' = [called |-> TRUE, safe_filename |-> SafeFilename(sName)]
    /\ UNCHANGED <<sName, envVars, guiVars, shapeVars, renderVars, groupVars>>

SanNext == Sanitize_Call

SpecSanitize == SanInit /\ [][SanNext]_vars

-----------------------------------------------------------------------------
(* fix_persian_text on every short text *)

ShapeChars == {"a", "beh", "fatha", "-"}

ShapeInit ==
    /\ EnvAny
    /\ shText \in {None, Num(<<"7">>)} \cup {Str(s) : s \in SeqsUpTo(ShapeChars, MaxTextLen)}
    /\ shRun = NotCalled
    /\ GuiInit /\ SanIdle /\ RenderIdle /\ GroupIdle

Shape_Call ==
    /\ ~shRun.called
    /\ shRun' = [called |-> TRUE, run |-> FixPersianTextRun(shText, BIDI_SUPPORT, reshaperFault)]
    /\ UNCHANGED <<shText, envVars, guiVars, sanVars, renderVars, groupVars>>

ShapeNext == Shape_Call

SpecShape == ShapeInit /\ [][ShapeNext]_vars

-----------------------------------------------------------------------------
(* create_pdf_for_person on groups of up to MaxGroupRows rows and tables of *)
(* up to MaxCols columns                                                    *)

ColLabel(k) == Str(<<"c", ToString(k)>>)
RowTag(r) == IF r = 1 THEN "beh" ELSE IF r = 2 THEN "y" ELSE "x"

\* row r of a group over n columns: the cell of column missAt is missing
RenderRow(n, r, missAt) ==
    [c \in 1..n |-> IF c = missAt THEN NaN ELSE Str(<<RowTag(r), ToString(c)>>)]

RenderFrame(n, m, miss) ==
    [columns |-> [c \in 1..n |-> ColLabel(c)],
     index |-> [r \in 1..m |-> r],
     rows |-> [r \in 1..m |-> RenderRow(n, r, miss[r])]]

RenderFrames(n) ==
    UNION {{RenderFrame(n, m, miss) : miss \in [1..m -> {0, 1, n}]} : m \in 0..MaxGroupRows}

RenderInit ==
    /\ EnvAny
    /\ \E n \in 1..MaxCols :
        /\ rData \in RenderFrames(n)
        /\ rColumns = [c \in 1..n |-> ColLabel(c)]
    /\ rName \in {Str(<<"A">>), Num(<<"7">>)}
    /\ rOut = NotCalled
    /\ GuiInit /\ ShapeIdle /\ SanIdle /\ GroupIdle

Render_Call ==
    /\ ~rOut.called
    /\ \E buildRaises \in BOOLEAN :
        rOut' = [called |-> TRUE,
                 ret |-> create_pdf_for_person(rData, rName, DefaultDir, rColumns, buildRaises)]
    /\ UNCHANGED <<rData, rName, rColumns, envVars, guiVars, shapeVars, sanVars, groupVars>>

RenderNext == Render_Call

SpecRender == RenderInit /\ [][RenderNext]_vars

-----------------------------------------------------------------------------
(* The grouping of process_conversion (lines 420-434) on every small table *)

NameLabel == Str(<<"n", "a", "m", "e">>)
AgeLabel == Str(<<"a", "g", "e">>)
KeyCells == {NaN, Str(<<"A">>), Str(<<"B">>), Num(<<"7">>)}

\* a table of m rows: the name column holds keys, the other column the row number
GroupTable(m, keys) ==
    [columns |-> <<NameLabel, AgeLabel>>,
     index |-> [r \in 1..m |-> r],
     rows |-> [r \in 1..m |-> <<keys[r], Num(<<ToString(r)>>)>>]]

GroupTables == UNION {{GroupTable(m, keys) : keys \in [1..m -> KeyCells]} : m \in 0..MaxRows}

GroupInit ==
    /\ gdf \in GroupTables
    /\ gcol \in {NameLabel, AgeLabel}
    /\ gnames = <<>>
    /\ ggroups = <<>>
    /\ gpc = "unique"
    /\ EnvFixed /\ GuiInit /\ ShapeIdle /\ SanIdle /\ RenderIdle

\* lines 421-422
Group_Unique ==
    /\ gpc = "unique"
    /\ gnames' = UniqueNames(gdf, gcol)
    /\ gpc' = "loop"
    /\ UNCHANGED <<gdf, gcol, ggroups, envVars, guiVars, shapeVars, sanVars, renderVars>>

\* lines 428 and 434: the next name and its rows
Group_Filter ==
    /\ gpc = "loop"
    /\ Len(ggroups) < Len(gnames)
    /\ LET name == gnames[Len(ggroups) + 1] IN
       ggroups' = Append(ggroups, [name |-> name, person_data |-> PersonData(gdf, gcol, name)])
    /\ UNCHANGED <<gdf, gcol, gnames, gpc, envVars, guiVars, shapeVars, sanVars, renderVars>>

\* line 428: the loop ends
Group_Done ==
    /\ gpc = "loop"
    /\ Len(ggroups) = Len(gnames)
    /\ gpc' = "done"
    /\ UNCHANGED <<gdf, gcol, gnames, ggroups, envVars, guiVars, shapeVars, sanVars, renderVars>>

GroupNext == Group_Unique \/ Group_Filter \/ Group_Done

SpecGroup == GroupInit /\ [][GroupNext]_vars

-----------------------------------------------------------------------------
(* The converter: the Tk main thread (user actions and the callbacks posted *)
(* with root.after) and the threads started by convert().  The status      *)
(* label, the progress bar and the texts of the drop zone are display only *)
(* and are not part of the state.                                          *)

CityLabel == Str(<<"c", "i", "t", "y">>)

Files == {"people.xlsx", "mixed.xlsx", "nokey.xlsx", "years.xlsx", "notes.txt"}
Dirs == {DefaultDir, "elsewhere"}

\* lines 357: file_path.endswith(('.xls', '.xlsx', '.xlsm', '.xlsb'))
IsExcelName(f) == f # "notes.txt"

\* what pd.read_excel makes of each file; notes.txt is no workbook
Readable(f) == f # "notes.txt"

FileTable(f) ==
    CASE f = "people.xlsx" ->
            [columns |-> <<NameLabel, AgeLabel>>, index |-> <<1, 2, 3, 4>>,
             rows |-> <<<<Str(<<"A">>), Num(<<"30">>)>>,
                        <<NaN, Num(<<"40">>)>>,
                        <<Str(<<"B">>), Num(<<"25">>)>>,
                        <<Str(<<"A">>), Num(<<"31">>)>>>>]
      [] f = "mixed.xlsx" ->
            [columns |-> <<NameLabel, AgeLabel>>, index |-> <<1, 2, 3>>,
             rows |-> <<<<Num(<<"7">>), Num(<<"30">>)>>,
                        <<NaN, NaN>>,
                        <<Str(<<"A">>), NaN>>>>]
      [] f = "nokey.xlsx" ->
            [columns |-> <<AgeLabel, CityLabel>>, index |-> <<1>>,
             rows |-> <<<<Num(<<"30">>), Str(<<"x">>)>>>>]
      [] f = "years.xlsx" ->
            [columns |-> <<AgeLabel, Num(<<"2023">>)>>, index |-> <<1>>,
             rows |-> <<<<Num(<<"30">>), Num(<<"7">>)>>>>]
      [] OTHER -> EmptyFrame

\* self.name_column_var.get(): the entry keeps its initial text (line 255)
name_column_var == NameLabel

\* a callback posted with root.after(0, ...), with the values it closes over
Callback(by, kind) ==
    [by |-> by, kind |-> kind, index |-> 0, total |-> 0, name |-> None,
     success |-> 0, errors |-> 0, dir |-> "", requested |-> None, columns |-> <<>>,
     available |-> <<>>]

\* separator.join(items) on texts
RECURSIVE Join(_, _)
Join(sep, items) ==
    IF items = <<>> THEN <<>>
    ELSE IF Len(items) = 1 THEN items[1]
    ELSE items[1] \o <<sep>> \o Join(sep, Tail(items))

\* ---- the main thread: user actions

\* load_file, lines 373-381
load_file(f) ==
    /\ file_path' = f
    /\ convert_btn' = "normal"
    /\ UNCHANGED <<output_dir, threads, after_queue,
                   dialogs, documents>>

\* drop_file, lines 351-360: a file that is no workbook gets an error box, which
\* leaves no state behind
DropFile ==
    /\ \E f \in Files :
        IF IsExcelName(f) THEN load_file(f) ELSE UNCHANGED guiVars
    /\ UNCHANGED <<envVars, shapeVars, sanVars, renderVars, groupVars>>

\* browse_file, lines 362-371: the dialog offers every file, or is cancelled
BrowseFile ==
    /\ \E f \in Files \cup {""} :
        IF f # "" THEN load_file(f) ELSE UNCHANGED guiVars
    /\ UNCHANGED <<envVars, shapeVars, sanVars, renderVars, groupVars>>

\* change_output_dir, lines 383-387
ChangeOutputDir ==
    /\ \E directory \in Dirs \cup {""} :
        IF directory # "" THEN output_dir' = directory ELSE UNCHANGED output_dir
    /\ UNCHANGED <<file_path, convert_btn, threads,
                   after_queue, dialogs, documents>>
    /\ UNCHANGED <<envVars, shapeVars, sanVars, renderVars, groupVars>>

NewThread ==
    [pc |-> "start", outcome |-> "running", df |-> EmptyFrame, name_column |-> None,
     unique_names |-> <<>>, total_names |-> 0, i |-> 0,
     success_count |-> 0, error_count |-> 0, renders |-> <<>>, posted |-> <<>>]

\* convert, lines 389-400: the button can be pressed only while it is enabled
Convert ==
    /\ convert_btn = "normal"
    /\ Len(threads) < MaxConverts
    /\ IF file_path = NoFile
       THEN \* line 391: an error box, which leaves no state behind
            UNCHANGED <<convert_btn, threads, dialogs>>
       ELSE /\ convert_btn' = "disabled"
            /\ threads' = Append(threads, NewThread)
            /\ UNCHANGED dialogs
    /\ UNCHANGED <<file_path, output_dir, after_queue, documents>>
    /\ UNCHANGED <<envVars, shapeVars, sanVars, renderVars, groupVars>>

\* ---- the main thread: one posted callback runs

\* the lambda of lines 414-417 builds its text when it runs: ', '.join raises
\* TypeError on a column label that is no string, and no box is shown
ColumnErrorDialog(cb) ==
    IF \E k \in 1..Len(cb.columns) : cb.columns[k].t # "str"
    THEN {}
    ELSE {[cb EXCEPT !.available = Join(", ", [k \in 1..Len(cb.columns) |-> cb.columns[k].v])]}

RunCallback ==
    /\ after_queue # <<>>
    /\ after_queue' = Tail(after_queue)
    /\ LET cb == Head(after_queue) IN
       CASE cb.kind = "column_error" ->
                /\ dialogs' = dialogs \cup ColumnErrorDialog(cb)
                /\ UNCHANGED convert_btn
         [] cb.kind = "showinfo" ->
                /\ dialogs' = dialogs \cup {cb}
                /\ UNCHANGED convert_btn
         [] cb.kind = "load_error" ->
                \* line 469: e is unbound once the except block is left, and the
                \* lambda then raises NameError instead of showing the box
                /\ \E bound \in BOOLEAN :
                        dialogs' = IF bound THEN dialogs \cup {cb} ELSE dialogs
                /\ UNCHANGED convert_btn
         [] cb.kind = "enable_btn" ->
                /\ convert_btn' = "normal"
                /\ UNCHANGED dialogs
    /\ UNCHANGED <<file_path, output_dir, threads, documents>>
    /\ UNCHANGED <<envVars, shapeVars, sanVars, renderVars, groupVars>>

\* ---- process_conversion, lines 402-476, run by thread w

\* lines 474-476: the finally block
FinallyCallbacks(w) == <<Callback(w, "progress_stop"), Callback(w, "enable_btn")>>

\* the callbacks that only touch the status label or the progress bar
DisplayOnly == {"progress", "status_done", "status_error", "progress_stop"}

RECURSIVE Effective(_)
Effective(cbs) ==
    IF cbs = <<>> THEN <<>>
    ELSE IF Head(cbs).kind \in DisplayOnly THEN Effective(Tail(cbs))
    ELSE <<Head(cbs)>> \o Effective(Tail(cbs))

\* thread w posts callbacks with root.after: posted keeps all that the thread
\* has posted so far, in order; those with an effect on the modelled state wait
\* in the queue of the main loop
Post(w, th, cbs) ==
    /\ threads' = [threads EXCEPT ![w] = [th EXCEPT !.posted = @ \o cbs]]
    /\ after_queue' = after_queue \o Effective(cbs)

\* lines 403-422: make the directory, read the file, look the name column up
Worker_Start(w) ==
    /\ threads[w].pc = "start"
    /\ LET df == FileTable(file_path)
           name_column == name_column_var
           th == threads[w]
       IN  IF ~Readable(file_path)
           THEN \* read_excel_file raises; lines 468-473, then finally
                Post(w, [th EXCEPT !.pc = "done", !.outcome = "load_error"],
                     <<Callback(w, "load_error"), Callback(w, "status_error")>>
                        \o FinallyCallbacks(w))
           ELSE IF ~HasColumn(df, name_column)
           THEN \* lines 413-418, then finally
                Post(w, [th EXCEPT !.pc = "done", !.outcome = "column_missing",
                                   !.df = df, !.name_column = name_column],
                     <<[Callback(w, "column_error") EXCEPT
                            !.requested = name_column, !.columns = df.columns]>>
                        \o FinallyCallbacks(w))
           ELSE Post(w, [th EXCEPT !.pc = "loop", !.df = df,
                                   !.name_column = name_column,
                                   !.unique_names = UniqueNames(df, name_column),
                                   !.total_names = Len(UniqueNames(df, name_column))],
                     <<>>)
    /\ UNCHANGED <<file_path, output_dir, convert_btn,
                   dialogs, documents>>
    /\ UNCHANGED <<envVars, shapeVars, sanVars, renderVars, groupVars>>

\* lines 428-431: the next name, and its status update is posted
Worker_Progress(w) ==
    /\ threads[w].pc = "loop"
    /\ threads[w].i < threads[w].total_names
    /\ Post(w, [threads[w] EXCEPT !.pc = "render"],
            <<[Callback(w, "progress") EXCEPT
                    !.index = threads[w].i + 1,
                    !.total = threads[w].total_names,
                    !.name = threads[w].unique_names[threads[w].i + 1]]>>)
    /\ UNCHANGED <<file_path, output_dir, convert_btn,
                   dialogs, documents>>
    /\ UNCHANGED <<envVars, shapeVars, sanVars, renderVars, groupVars>>

\* faulty variant of AfterRender: a failed render ends the loop uncounted
AfterRenderAbort(th, name, ret) ==
    IF ret.raised
    THEN [th EXCEPT !.pc = "done",
                    !.renders = Append(@, [name |-> name, raised |-> TRUE,
                                           pdf_filename |-> ret.pdf_filename])]
    ELSE [th EXCEPT !.pc = "loop", !.i = @ + 1, !.success_count = @ + 1,
                    !.renders = Append(@, [name |-> name, raised |-> FALSE,
                                           pdf_filename |-> ret.pdf_filename])]

\* lines 437-442: the thread after create_pdf_for_person returned or raised
AfterRender(th, name, ret) ==
    [th EXCEPT !.pc = "loop",
               !.i = @ + 1,
               !.success_count = IF ret.raised THEN @ ELSE @ + 1,
               !.error_count = IF ret.raised THEN @ + 1 ELSE @,
               !.renders = Append(@, [name |-> name, raised |-> ret.raised,
                                      pdf_filename |-> ret.pdf_filename])]

\* lines 434-442: filter the rows of the name and render them
Worker_Render(w) ==
    /\ threads[w].pc = "render"
    /\ \E buildRaises \in BOOLEAN :
        LET th == threads[w]
            name == th.unique_names[th.i + 1]
            person_data == PersonData(th.df, th.name_column, name)
            ret == create_pdf_for_person(person_data, name, output_dir,
                                         th.df.columns, buildRaises)
        IN  /\ threads' = [threads EXCEPT ![w] = AfterRender(th, name, ret)]
            /\ documents' = IF ret.raised THEN documents
                            ELSE documents \cup {ret.pdf_filename}
    /\ UNCHANGED <<file_path, output_dir, convert_btn,
                   after_queue, dialogs>>
    /\ UNCHANGED <<envVars, shapeVars, sanVars, renderVars, groupVars>>

\* lines 444-457 and 474-476: the loop is over; the completion message (with
\* self.output_dir as it is now) and the final status are posted, then finally
Worker_Complete(w) ==
    /\ threads[w].pc = "loop"
    /\ threads[w].i >= threads[w].total_names
    /\ LET result == [Callback(w, "showinfo") EXCEPT
                        !.success = threads[w].success_count,
                        !.errors = threads[w].error_count,
                        !.dir = output_dir]
       IN  Post(w, [threads[w] EXCEPT !.pc = "done", !.outcome = "complete"],
                <<result, [result EXCEPT !.kind = "status_done", !.dir = ""]>>
                    \o FinallyCallbacks(w))
    /\ UNCHANGED <<file_path, output_dir, convert_btn,
                   dialogs, documents>>
    /\ UNCHANGED <<envVars, shapeVars, sanVars, renderVars, groupVars>>

\* the process after the import and the construction of the window; what the
\* converter does with its files does not depend on the reshaper's failures
Init ==
    /\ BIDI_SUPPORT \in BOOLEAN /\ reshaperFault = "none"
    /\ GuiInit /\ ShapeIdle /\ SanIdle /\ RenderIdle /\ GroupIdle

Next ==
    \/ DropFile
    \/ BrowseFile
    \/ ChangeOutputDir
    \/ Convert
    \/ RunCallback
    \/ \E w \in 1..Len(threads) : Worker_Start(w)
    \/ \E w \in 1..Len(threads) : Worker_Progress(w)
    \/ \E w \in 1..Len(threads) : Worker_Render(w)
    \/ \E w \in 1..Len(threads) : Worker_Complete(w)

Spec == Init /\ [][Next]_vars

\* the runs in which convert starts a single thread
ConvertOnce == Len(threads) = 0 /\ Convert

NextBatch ==
    \/ DropFile
    \/ BrowseFile
    \/ ChangeOutputDir
    \/ ConvertOnce
    \/ RunCallback
    \/ \E w \in 1..Len(threads) : Worker_Start(w)
    \/ \E w \in 1..Len(threads) : Worker_Progress(w)
    \/ \E w \in 1..Len(threads) : Worker_Render(w)
    \/ \E w \in 1..Len(threads) : Worker_Complete(w)

SpecBatch == Init /\ [][NextBatch]_vars

-----------------------------------------------------------------------------
(* Properties of the filename sanitization (SpecSanitize) *)

OnlyFilenameChars(s) == \A k \in 1..Len(s) : IsAlnum(s[k]) \/ s[k] \in {" ", "-", "_"}
NoLeadingSpace(s) == s = <<>> \/ ~IsSpace(s[1])
NoTrailingSpace(s) == s = <<>> \/ ~IsSpace(s[Len(s)])

\* C4 as stated: the sanitized name holds only alphanumeric characters, space,
\* hyphen and underscore, and has neither leading nor trailing whitespace.
C4_SanitizedNoLeadingNoTrailing ==
    sOut.called =>
        /\ OnlyFilenameChars(sOut.safe_filename)
        /\ NoLeadingSpace(sOut.safe_filename)
        /\ NoTrailingSpace(sOut.safe_filename)

\* C4 as amended: the sanitized name holds only alphanumeric characters, space,
\* hyphen and underscore, and has no trailing whitespace; it is the name's
\* allowed characters in order, so leading spaces of the name are kept.
C4_SanitizedNoTrailing ==
    sOut.called =>
        /\ OnlyFilenameChars(sOut.safe_filename)
        /\ NoTrailingSpace(sOut.safe_filename)
        /\ \E n \in 0..Len(sName) :
            /\ sOut.safe_filename = SubSeq(FilterChars(sName), 1, n)
            /\ \A k \in (n + 1)..Len(FilterChars(sName)) : IsSpace(FilterChars(sName)[k])

\* a name with a leading and a trailing space: only the trailing one goes
C4_Witness ==
    /\ sOut.called
    /\ sName = <<" ", "a", " ">>
    /\ sOut.safe_filename = <<" ", "a">>

-----------------------------------------------------------------------------
(* Properties of fix_persian_text (SpecShape) *)

IsText(s) == \A k \in 1..Len(s) : s[k] \in STRING

\* C6: the call never raises and returns a string; None gives the empty string;
\* without BiDi support the text comes back unchanged; with it, a failure of the
\* full configuration is followed by exactly one attempt with the default
\* configuration, and a failure of that one returns the unshaped text.
C6_ShaperNeverRaises ==
    shRun.called =>
        LET run == shRun.run IN
        /\ ~run.raised
        /\ IsText(run.result)
        /\ shText = None => run.result = <<>> /\ run.attempts = <<>>
        /\ (shText # None /\ ~BIDI_SUPPORT) =>
                run.result = PyStr(shText) /\ run.attempts = <<>>
        /\ (shText # None /\ BIDI_SUPPORT /\ reshaperFault = "none") =>
                run.attempts = <<"full">>
        /\ (shText # None /\ BIDI_SUPPORT /\ reshaperFault # "none") =>
                run.attempts = <<"full", "default">>
        /\ (shText # None /\ BIDI_SUPPORT /\ reshaperFault = "both") =>
                run.result = PyStr(shText)

\* both configurations fail on a right-to-left text, which comes back unshaped
C6_Witness ==
    /\ shRun.called
    /\ BIDI_SUPPORT /\ reshaperFault = "both"
    /\ shText = Str(<<"beh", "fatha">>)
    /\ shRun.run.result = <<"beh", "fatha">>
    /\ shRun.run.attempts = <<"full", "default">>

-----------------------------------------------------------------------------
(* Properties of create_pdf_for_person (SpecRender) *)

\* the call reached the table: the entity name is a string
Composed == rOut.called /\ rName.t = "str"

\* the shaped text of a value, and of a column label
Shaped(text) == fix_persian_text(Str(text))

IsHorizontal(table_data, columns) ==
    /\ Len(table_data) = 2
    /\ Len(table_data[1]) = Len(columns) /\ Len(table_data[2]) = Len(columns)
    /\ \A k \in 1..Len(columns) :
        table_data[1][Len(columns) + 1 - k] = fix_persian_text(columns[k])

IsVertical(table_data, columns) ==
    /\ Len(table_data) = Len(columns)
    /\ \A k \in 1..Len(columns) :
        /\ Len(table_data[k]) = 2
        /\ table_data[k][2] = fix_persian_text(columns[k])

\* C5: with at most 10 columns the body is horizontal (a header row and a value
\* row), with 11 or more it is vertical (one [value, column name] row per column).
C5_LayoutByColumnCount ==
    Composed =>
        /\ Len(rColumns) <= 10 => IsHorizontal(rOut.ret.table_data, rColumns)
        /\ Len(rColumns) >= 11 => IsVertical(rOut.ret.table_data, rColumns)

C5_Witness ==
    /\ Composed
    /\ Len(rColumns) = 10
    /\ IsHorizontal(rOut.ret.table_data, rColumns)
    /\ ~IsVertical(rOut.ret.table_data, rColumns)

\* the value rendered for column k: in the value row of the horizontal layout
\* (reversed), or first in the k-th row of the vertical layout
RenderedValue(k) ==
    IF Len(rColumns) > LayoutThreshold
    THEN rOut.ret.table_data[k][1]
    ELSE rOut.ret.table_data[2][Len(rColumns) + 1 - k]

\* C9: every rendered field value of a group with at least one row is the cell
\* of the group's first row, and a missing cell there is rendered as "-".
C9_FirstRowValues ==
    (Composed /\ Len(rData.rows) >= 1) =>
        \A k \in 1..Len(rColumns) :
            LET cell == rData.rows[1][k] IN
            RenderedValue(k) = IF IsNa(cell) THEN <<"-">> ELSE Shaped(PyStr(cell))

\* two rows; the first misses its first cell where the second has a value
C9_Witness ==
    /\ Composed
    /\ Len(rData.rows) = 2
    /\ IsNa(rData.rows[1][1]) /\ ~IsNa(rData.rows[2][1])
    /\ RenderedValue(1) = <<"-">>
    /\ Len(rColumns) >= 2 /\ ~IsNa(rData.rows[1][2])
    /\ RenderedValue(2) = Shaped(PyStr(rData.rows[1][2]))

-----------------------------------------------------------------------------
(* Properties of the grouping (SpecGroup) *)

SeqToSet(s) == {s[k] : k \in 1..Len(s)}

\* the rows of gdf whose key cell is not missing, by row label
KeyedRows == {gdf.index[r] : r \in {q \in 1..Len(gdf.rows) : ~IsNa(Column(gdf, gcol)[q])}}

\* the distinct key values that are not missing
DistinctKeys == {c \in SeqToSet(Column(gdf, gcol)) : ~IsNa(c)}

GroupRows(g) == SeqToSet(ggroups[g].person_data.index)

\* C1: the groups partition the rows whose key cell is not missing: each group
\* holds the rows whose key equals its value, the union of the groups is that
\* row subset, no row is in two groups, and there is one group per distinct
\* non-missing key value.
C1_GroupsPartitionKeyedRows ==
    gpc = "done" =>
        /\ UNION {GroupRows(g) : g \in 1..Len(ggroups)} = KeyedRows
        /\ \A g, h \in 1..Len(ggroups) : g # h => GroupRows(g) \cap GroupRows(h) = {}
        /\ Len(ggroups) = Cardinality(DistinctKeys)
        /\ \A g \in 1..Len(ggroups) :
            /\ ggroups[g].name \in DistinctKeys
            /\ GroupRows(g) = {gdf.index[r] : r \in {q \in 1..Len(gdf.rows) :
                                    Column(gdf, gcol)[q] = ggroups[g].name}}
            /\ Len(ggroups[g].person_data.index) = Cardinality(GroupRows(g))

\* two groups, one of two rows, and a row with a missing key left out
C1_Witness ==
    /\ gpc = "done"
    /\ Len(ggroups) = 2
    /\ \E g \in 1..Len(ggroups) : Cardinality(GroupRows(g)) = 2
    /\ \E r \in 1..Len(gdf.rows) : IsNa(Column(gdf, gcol)[r])

-----------------------------------------------------------------------------
(* Properties of the converter (Spec, SpecBatch) *)

ThreadIds == 1..Len(threads)

\* the callbacks of one kind that thread w has posted, in order
PostedOf(w, kinds) == SelectSeq(threads[w].posted, LAMBDA cb : cb.kind \in kinds)

\* the key column of the table thread w loaded
KeyColumn(w) == Column(threads[w].df, threads[w].name_column)

\* the distinct non-missing values of a column
DistinctOf(col) == {c \in SeqToSet(col) : ~IsNa(c)}

\* the row at which a value first occurs in a column
FirstRow(col, v) == CHOOSE r \in 1..Len(col) : col[r] = v /\ \A q \in 1..(r - 1) : col[q] # v

\* the k-th distinct non-missing value of a column, by first occurrence
KthKey(col, k) ==
    CHOOSE v \in DistinctOf(col) :
        Cardinality({u \in DistinctOf(col) : FirstRow(col, u) < FirstRow(col, v)}) = k - 1

CountRaised(renders, b) == Cardinality({k \in 1..Len(renders) : renders[k].raised = b})

\* thread w read a table that has the name column
Grouped(w) == threads[w].pc # "start" /\ threads[w].outcome \in {"running", "complete"}

\* C2: a render that raises does not end the batch: it adds exactly one to
\* error_count and nothing to success_count, the remaining groups are still
\* rendered, and when the loop ends success_count + error_count is the number
\* of groups.
C2_RenderFailureCounted ==
    \A w \in ThreadIds :
        LET th == threads[w] IN
        Grouped(w) =>
            /\ th.error_count = CountRaised(th.renders, TRUE)
            /\ th.success_count = CountRaised(th.renders, FALSE)
            /\ th.i = Len(th.renders)
            /\ \A k \in 1..Len(th.renders) : th.renders[k].name = KthKey(KeyColumn(w), k)
            /\ th.pc = "done" =>
                /\ th.outcome = "complete"
                /\ Len(th.renders) = Cardinality(DistinctOf(KeyColumn(w)))
                /\ th.success_count + th.error_count = Cardinality(DistinctOf(KeyColumn(w)))

\* a batch that ended after a failed render followed by a successful one
C2_Witness ==
    \E w \in ThreadIds :
        /\ threads[w].pc = "done" /\ threads[w].outcome = "complete"
        /\ Len(threads[w].renders) = 2
        /\ threads[w].renders[1].raised /\ ~threads[w].renders[2].raised
        /\ threads[w].error_count = 1 /\ threads[w].success_count = 1

RECURSIVE Split(_, _)
\* text.split(sep), sep a single token
Split(text, sep) ==
    IF \A k \in 1..Len(text) : text[k] # sep THEN <<text>>
    ELSE LET p == CHOOSE k \in 1..Len(text) :
                    text[k] = sep /\ \A q \in 1..(k - 1) : text[q] # sep
         IN  <<SubSeq(text, 1, p - 1)>> \o Split(SubSeq(text, p + 1, Len(text)), sep)

Occurrences(items, x) == Cardinality({k \in 1..Len(items) : items[k] = x})

\* the callback has left the queue of the main loop: it has run
HasRun(w, kind) == \A k \in 1..Len(after_queue) :
                        ~(after_queue[k].by = w /\ after_queue[k].kind = kind)

\* C3: when the name column is not in the table, no group is processed (nothing
\* rendered, no progress event, no result), and the single error reported names
\* the requested column and lists every column of the table exactly once.
C3_MissingColumnReported ==
    \A w \in ThreadIds :
        LET th == threads[w] IN
        th.outcome = "column_missing" =>
            /\ th.renders = <<>>
            /\ PostedOf(w, {"progress", "showinfo", "status_done"}) = <<>>
            /\ Len(PostedOf(w, {"column_error", "load_error"})) = 1
            /\ HasRun(w, "column_error") =>
                \E d \in dialogs :
                    /\ d.by = w /\ d.kind = "column_error"
                    /\ d.requested = th.name_column
                    /\ \A c \in 1..Len(th.df.columns) :
                        Occurrences(Split(d.available, ", "), PyStr(th.df.columns[c])) = 1

\* C7: the k-th progress event carries index k, the number of groups and the
\* k-th distinct non-missing key in first-occurrence order; it is posted before
\* that group is rendered; the result is posted once, after the last group.
C7_ProgressInFirstOccurrenceOrder ==
    \A w \in ThreadIds :
        LET th == threads[w]
            progress == PostedOf(w, {"progress"})
            result == PostedOf(w, {"showinfo"})
        IN  /\ Grouped(w) =>
                /\ Len(progress) = Len(th.renders) + (IF th.pc = "render" THEN 1 ELSE 0)
                /\ \A k \in 1..Len(progress) :
                    /\ progress[k].index = k
                    /\ progress[k].total = Cardinality(DistinctOf(KeyColumn(w)))
                    /\ progress[k].name = KthKey(KeyColumn(w), k)
                /\ \A k \in 1..Len(th.renders) : th.renders[k].name = progress[k].name
            /\ Len(result) <= 1
            /\ Len(result) = 1 =>
                /\ Grouped(w)
                /\ Len(th.renders) = Cardinality(DistinctOf(KeyColumn(w)))
                /\ Len(progress) = Len(th.renders)
                /\ \A k \in 1..Len(progress) : th.posted[k] = progress[k]
                /\ th.posted[Len(progress) + 1] = result[1]
                /\ result[1].success = CountRaised(th.renders, FALSE)
                /\ result[1].errors = CountRaised(th.renders, TRUE)
                /\ result[1].dir \in Dirs

\* a finished batch over a table whose first key occurs again after the second
C7_Witness ==
    \E w \in ThreadIds :
        /\ threads[w].outcome = "complete"
        /\ Len(PostedOf(w, {"progress"})) = 2
        /\ Len(PostedOf(w, {"showinfo"})) = 1
        /\ \E r \in 1..Len(KeyColumn(w)) :
            /\ r > FirstRow(KeyColumn(w), KthKey(KeyColumn(w), 2))
            /\ KeyColumn(w)[r] = KthKey(KeyColumn(w), 1)

Running == {w \in ThreadIds : threads[w].pc # "done"}

\* C8: at most one thread runs at any time: between the start of a thread and
\* its end no user action starts a second one.
C8_AtMostOneWorker == Cardinality(Running) <= 1

\* the directories thread w has written documents to
WrittenDirs(w) ==
    {threads[w].renders[k].pdf_filename.dir :
        k \in {q \in 1..Len(threads[w].renders) : ~threads[w].renders[q].raised}}

\* C10: all documents of one batch go to one directory, the one its result
\* reports, whatever the user does to the output directory meanwhile.
C10_OneOutputDirectory ==
    \A w \in ThreadIds :
        /\ Cardinality(WrittenDirs(w)) <= 1
        /\ \A k \in 1..Len(threads[w].posted) :
            threads[w].posted[k].kind = "showinfo" =>
                WrittenDirs(w) \subseteq {threads[w].posted[k].dir}

====
